---- MODULE Spec2Model ----
(***************************************************************************)
(* A model of CacheService (src/src/cache/cache.service.ts): a facade over *)
(* one ioredis connection.  The facade itself keeps no entries; its state  *)
(* is the promises it has handed out and the commands it has written to    *)
(* the connection.  The connection is a FIFO pipeline: commands are        *)
(* executed by the store in the order they were written, and replies come  *)
(* back in that order.                                                     *)
(***************************************************************************)
EXTENDS Integers, Sequences, FiniteSets, TLC

(***************************************************************************)
(* Bounds.                                                                 *)
(***************************************************************************)
\* Most commands that may be in flight (written, not yet answered) at once.
MaxInFlight == 3

(***************************************************************************)
(* JavaScript values, tagged so that values of different types compare.    *)
(***************************************************************************)
JsUndefined == [t |-> "undefined", n |-> 0, s |-> "", a |-> <<>>]
JsNull == [t |-> "null", n |-> 0, s |-> "", a |-> <<>>]
JsNum(n) == [t |-> "number", n |-> n, s |-> "", a |-> <<>>]
JsStr(s) == [t |-> "string", n |-> 0, s |-> s, a |-> <<>>]
JsArr(a) == [t |-> "array", n |-> 0, s |-> "", a |-> a]
JsErr(name) == [t |-> "error", n |-> 0, s |-> name, a |-> <<>>]
\* The number NaN.
JsNaN == [t |-> "number", n |-> 0, s |-> "NaN", a |-> <<>>]
\* A function.
JsFunc == [t |-> "function", n |-> 0, s |-> "", a |-> <<>>]
\* A reference back to the object that holds it (a cyclic structure).
JsCyclic == [t |-> "cyclic", n |-> 0, s |-> "", a |-> <<>>]

\* A property of a parameter object; an object is the sequence of its
\* properties in insertion order.
Prop(name, val) == [name |-> name, val |-> val]

(***************************************************************************)
(* encryptParams: JSON.stringify, SHA-256, base64.                         *)
(***************************************************************************)
\* JSON.stringify of a scalar: a number that is not finite becomes null.
StringifyValue(v) ==
  CASE v.t = "number" /\ v.s = "NaN" -> "null"
    [] v.t = "number" -> ToString(v.n)
    [] v.t = "string" -> "\"" \o v.s \o "\""
    [] OTHER -> "null"

\* The properties of an object, in insertion order, comma separated; a
\* property whose value is undefined or a function is left out.
RECURSIVE StringifyProps(_)
StringifyProps(props) ==
  IF props = <<>> THEN ""
  ELSE LET p == Head(props)
           rest == StringifyProps(Tail(props))
       IN IF p.val.t \in {"undefined", "function"} THEN rest
          ELSE "\"" \o p.name \o "\":" \o StringifyValue(p.val)
                 \o (IF rest = "" THEN "" ELSE "," \o rest)

JsonStringify(params) == "{" \o StringifyProps(params) \o "}"

\* JSON.stringify throws a TypeError on a cyclic structure, and on nothing
\* else an object of scalars and functions can hold.
StringifyThrows(params) == \E i \in 1..Len(params) : params[i].val.t = "cyclic"

\* crypto.createHash('sha256').update(str).digest('base64'), tabulated with
\* the digests SHA-256 gives for the texts the parameter objects of this
\* model serialise to.
Sha256Base64(str) ==
  CASE str = "{\"id\":1,\"name\":\"a\"}" -> "fw/BBQpCoMsoMJ+ZfcTjiFvmb3oENpRcmPd47cJOAfQ="
    [] str = "{\"name\":\"a\",\"id\":1}" -> "rvRjsORi9gnhu4SuamaHTbdWacyYp8SmgONgcp5SRnQ="
    [] str = "{\"id\":2,\"name\":\"a\"}" -> "dRCJyZkDuHqD5OcdMJEGd61qAryI3GrgEnSZV8HDPwQ="
    [] str = "{\"name\":\"a\",\"id\":2}" -> "DJ8lnlv6m5GDtqRzQwbnGUaneuATmikUVcceQP+vGgQ="
    [] str = "{\"id\":1}" -> "A3ySFO73TMOIfzpPCFtOF9digNr9JzsO4WDAnEuhz9Q="
    [] str = "{\"id\":null}" -> "GFSGCR3wuYzQSX45iRkSIJIJyU34m9mJoKs5fN5h8dQ="
    [] str = "{\"id\":2}" -> "nn5lRTc5u8ZLoVXu0Yo3vV+xGWx/Kd7R2mYLlEFNetg="
    [] str = "{\"name\":\"a\"}" -> "2dcZsnSAtVzUkYAg50c+cW7TVpyK2v6SbPmxC0+O8GQ="
    [] str = "{}" -> "RBNvo1WzZ4oRRq0W9+hknpT7T8If536DEMBg9hyq/4o="

encryptParams(params) == Sha256Base64(JsonStringify(params))

\* `${key}:${this.encryptParams(params)}`
FinalKey(key, params) == key \o ":" \o encryptParams(params)

(***************************************************************************)
(* The store's glob matching (KEYS pattern): * is any run of characters,   *)
(* ? is any one character, anything else is itself.                        *)
(***************************************************************************)
RECURSIVE GlobMatch(_, _)
GlobMatch(pattern, str) ==
  IF pattern = "" THEN str = ""
  ELSE LET pc == SubSeq(pattern, 1, 1)
           prest == SubSeq(pattern, 2, Len(pattern))
           srest == SubSeq(str, 2, Len(str))
       IN CASE pc = "*" -> GlobMatch(prest, str) \/ (str # "" /\ GlobMatch(pattern, srest))
            [] pc = "?" -> str # "" /\ GlobMatch(prest, srest)
            [] OTHER -> str # "" /\ SubSeq(str, 1, 1) = pc /\ GlobMatch(prest, srest)

(***************************************************************************)
(* Functions whose domain changes (the keyspace, what a caller knows).     *)
(***************************************************************************)
Put(f, k, v) == [x \in (DOMAIN f) \cup {k} |-> IF x = k THEN v ELSE f[x]]
Drop(f, k) == [x \in (DOMAIN f) \ {k} |-> f[x]]
DropAll(f, ks) == [x \in (DOMAIN f) \ ks |-> f[x]]
EmptyMap == [x \in {} |-> ""]

\* Every ordering of a finite set, as sequences without repetition.
Orderings(S) ==
  {q \in [1..Cardinality(S) -> S] : \A i, j \in 1..Cardinality(S) : q[i] = q[j] => i = j}

\* The elements of the sequence q.
Range(q) == {q[i] : i \in 1..Len(q)}

\* How many times k occurs in the sequence q.
Occurrences(q, k) == Cardinality({i \in 1..Len(q) : q[i] = k})

(***************************************************************************)
(* The callers of the facade, and the inputs they draw from.               *)
(***************************************************************************)
Callers == {"c1", "c2"}
Values == {"X", "Y"}
StoreErrors == {"StoreUnavailableError", "StoreProtocolError"}

VARIABLES
  store,    \* the store's keyspace: key -> string value, for the keys present
  ttl,      \* key -> seconds left, for the keys that expire
  wire,     \* commands written to the connection and not yet executed (FIFO)
  replies,  \* replies of the store not yet handed to their callbacks (FIFO)
  call,     \* per caller: its current (or last settled) call of the facade
  known,    \* per caller: key -> what its own acknowledged writes left there
  live,     \* keys that have been set and not deleted since
  entry,    \* the last setFromParams the store executed, until the next write
  bulk      \* per caller: the bookkeeping of its latest delFromPattern

vars == <<store, ttl, wire, replies, call, known, live, entry, bulk>>

NoCall ==
  [op |-> "none", status |-> "idle", key |-> "", params |-> <<>>, value |-> "",
   option |-> JsUndefined, optionValue |-> JsUndefined, finalKey |-> "",
   sent |-> 0, cmd |-> "", args |-> <<>>, result |-> JsUndefined,
   storeErr |-> FALSE, storeVal |-> JsUndefined, existed |-> FALSE,
   wasLive |-> FALSE, knew |-> JsUndefined, knewEntry |-> JsUndefined,
   knewWrote |-> JsUndefined, changed |-> FALSE, expiring |-> FALSE]

NoBulk ==
  [pattern |-> "", status |-> "none", result |-> JsUndefined, listed |-> FALSE,
   listing |-> <<>>, before |-> EmptyMap, issued |-> <<>>, ok |-> {},
   failed |-> {}, quiet |-> FALSE, snapped |-> FALSE, snapshot |-> {},
   late |-> {}, wrote |-> EmptyMap]

\* The properties of a parameter object, whatever order they were added in.
PropSet(params) == {params[i] : i \in 1..Len(params)}

NoEntry == [held |-> FALSE, key |-> "", props |-> {}, finalKey |-> "", value |-> ""]

InitWith(store0) ==
  /\ store = store0
  /\ ttl = [x \in {} |-> 0]
  /\ wire = <<>>
  /\ replies = <<>>
  /\ call = [c \in Callers |-> NoCall]
  /\ known = [c \in Callers |-> [x \in {} |-> JsNull]]
  /\ live = DOMAIN store0
  /\ entry = NoEntry
  /\ bulk = [c \in Callers |-> NoBulk]

(***************************************************************************)
(* The facade's calls.  Each writes one command to the connection and      *)
(* returns the promise util.promisify makes for it.                        *)
(***************************************************************************)
InFlight == Len(wire) + Len(replies)

Command(c, cmd, args) ==
  [owner |-> c, detached |-> FALSE, tracked |-> FALSE, cmd |-> cmd, args |-> args]

\* A command written to the connection goes behind those written before it.
WrittenAhead(q, h) == <<h>> \o q

Written(q, h) == Append(q, h)

\* A settled promise's continuation is a microtask: it runs before the
\* process takes up anything else (another caller's code, another reply).
Draining == \E c \in Callers : call[c].status \in {"resolved", "rejected", "thrown"}

\* A caller awaits each call before its next one.
CanCall(c) == call[c].status = "idle" /\ ~Draining /\ InFlight < MaxInFlight

Started(c, op, key, params, value, option, optionValue, finalKey, cmd, args) ==
  /\ wire' = Written(wire, Command(c, cmd, args))
  /\ call' = [call EXCEPT ![c] =
       [NoCall EXCEPT !.op = op, !.status = "pending", !.key = key,
                      !.params = params, !.value = value, !.option = option,
                      !.optionValue = optionValue, !.finalKey = finalKey,
                      !.sent = 1, !.cmd = cmd, !.args = args]]

\* set with its first two arguments in the other order.
SetArgsValueFirst(key, value, option, optionValue) ==
  IF option # JsUndefined /\ optionValue # JsUndefined
  THEN <<JsStr(value), JsStr(key), option, optionValue>>
  ELSE <<JsStr(value), JsStr(key)>>

\* set passing the modifier on as soon as one of the two is given.
SetArgsEitherGiven(key, value, option, optionValue) ==
  IF option # JsUndefined \/ optionValue # JsUndefined
  THEN <<JsStr(key), JsStr(value), option, optionValue>>
  ELSE <<JsStr(key), JsStr(value)>>

\* set: the arguments handed to redis.set.
SetArgs(key, value, option, optionValue) ==
  IF option # JsUndefined /\ optionValue # JsUndefined
  THEN <<JsStr(key), JsStr(value), option, optionValue>>
  ELSE <<JsStr(key), JsStr(value)>>

Set(c, key, value, option, optionValue) ==
  /\ CanCall(c)
  /\ Started(c, "set", key, <<>>, value, option, optionValue, key, "set",
             SetArgs(key, value, option, optionValue))
  /\ UNCHANGED <<store, ttl, replies, known, live, entry, bulk>>

\* A get answered from a copy the facade keeps of the caller's own writes.
GetCached(c, key) ==
  /\ CanCall(c)
  /\ IF key \in DOMAIN known[c] /\ known[c][key].t = "string"
     THEN /\ call' = [call EXCEPT ![c] =
               [NoCall EXCEPT !.op = "get", !.status = "resolved", !.key = key,
                              !.finalKey = key, !.result = known[c][key]]]
          /\ UNCHANGED wire
     ELSE Started(c, "get", key, <<>>, "", JsUndefined, JsUndefined, key, "get",
                  <<JsStr(key)>>)
  /\ UNCHANGED <<store, ttl, replies, known, live, entry, bulk>>

Get(c, key) ==
  /\ CanCall(c)
  /\ Started(c, "get", key, <<>>, "", JsUndefined, JsUndefined, key, "get",
             <<JsStr(key)>>)
  /\ UNCHANGED <<store, ttl, replies, known, live, entry, bulk>>

GetKeys(c, pattern) ==
  /\ CanCall(c)
  /\ Started(c, "getKeys", pattern, <<>>, "", JsUndefined, JsUndefined, pattern,
             "keys", <<JsStr(pattern)>>)
  /\ UNCHANGED <<store, ttl, replies, known, live, entry, bulk>>

\* A del whose promise resolves as soon as the command is written.
DelUnawaited(c, key) ==
  /\ CanCall(c)
  /\ wire' = Append(wire, [Command(c, "del", <<JsStr(key)>>) EXCEPT !.detached = TRUE])
  /\ call' = [call EXCEPT ![c] =
       [NoCall EXCEPT !.op = "del", !.status = "resolved", !.key = key,
                      !.finalKey = key, !.sent = 1, !.cmd = "del",
                      !.args = <<JsStr(key)>>, !.result = JsNum(1)]]
  /\ UNCHANGED <<store, ttl, replies, known, live, entry, bulk>>

Del(c, key) ==
  /\ CanCall(c)
  /\ Started(c, "del", key, <<>>, "", JsUndefined, JsUndefined, key, "del",
             <<JsStr(key)>>)
  /\ UNCHANGED <<store, ttl, replies, known, live, entry, bulk>>

\* setFromParams handing set the base key, not the derived one.
SetFromParamsArgsBaseKey(key, params, value, option, optionValue) ==
  IF option # JsUndefined /\ optionValue # JsUndefined
  THEN SetArgs(key, value, option, optionValue)
  ELSE SetArgs(key, value, JsUndefined, JsUndefined)

\* setFromParams: derives the key, then calls set with or without the pair.
SetFromParamsArgs(key, params, value, option, optionValue) ==
  IF option # JsUndefined /\ optionValue # JsUndefined
  THEN SetArgs(FinalKey(key, params), value, option, optionValue)
  ELSE SetArgs(FinalKey(key, params), value, JsUndefined, JsUndefined)

SetFromParams(c, key, params, value, option, optionValue) ==
  /\ CanCall(c)
  /\ ~StringifyThrows(params)
  /\ Started(c, "setFromParams", key, params, value, option, optionValue,
             FinalKey(key, params), "set",
             SetFromParamsArgs(key, params, value, option, optionValue))
  /\ UNCHANGED <<store, ttl, replies, known, live, entry, bulk>>

GetFromParams(c, key, params) ==
  /\ CanCall(c)
  /\ ~StringifyThrows(params)
  /\ Started(c, "getFromParams", key, params, "", JsUndefined, JsUndefined,
             FinalKey(key, params), "get", <<JsStr(FinalKey(key, params))>>)
  /\ UNCHANGED <<store, ttl, replies, known, live, entry, bulk>>

DelFromParams(c, key, params) ==
  /\ CanCall(c)
  /\ ~StringifyThrows(params)
  /\ Started(c, "delFromParams", key, params, "", JsUndefined, JsUndefined,
             FinalKey(key, params), "del", <<JsStr(FinalKey(key, params))>>)
  /\ UNCHANGED <<store, ttl, replies, known, live, entry, bulk>>

\* A FromParams variant whose encryptParams throws: the exception leaves the
\* variant before it has called set, get or del.
FromParamsOps == {"setFromParams", "getFromParams", "delFromParams"}

FromParamsThrows(c, op, key, params) ==
  /\ CanCall(c)
  /\ StringifyThrows(params)
  /\ call' = [call EXCEPT ![c] =
       [NoCall EXCEPT !.op = op, !.status = "thrown", !.key = key,
                      !.params = params, !.result = JsErr("TypeError")]]
  /\ UNCHANGED <<store, ttl, wire, replies, known, live, entry, bulk>>

\* delFromPattern, up to its await: the listing is asked for.  The deletes an
\* earlier delFromPattern of this caller left in flight are no longer the
\* latest call's.
Untrack(q, c) ==
  [i \in 1..Len(q) |-> IF q[i].owner = c THEN [q[i] EXCEPT !.tracked = FALSE] ELSE q[i]]

DelFromPattern(c, pattern) ==
  /\ CanCall(c)
  /\ wire' = Written(Untrack(wire, c), Command(c, "keys", <<JsStr(pattern)>>))
  /\ replies' = Untrack(replies, c)
  /\ call' = [call EXCEPT ![c] =
       [NoCall EXCEPT !.op = "delFromPattern", !.status = "pending",
                      !.key = pattern, !.finalKey = pattern, !.sent = 1,
                      !.cmd = "keys", !.args = <<JsStr(pattern)>>]]
  /\ bulk' = [bulk EXCEPT ![c] =
       [NoBulk EXCEPT !.pattern = pattern, !.status = "pending",
                      !.before = store, !.quiet = TRUE]]
  /\ UNCHANGED <<store, ttl, known, live, entry>>

(***************************************************************************)
(* The store: it takes the oldest command of the connection, executes it   *)
(* atomically and answers; or the command fails and an error comes back.   *)
(***************************************************************************)
\* The key the call behind command h is about: the key the facade meant to
\* use (a detached delete is about the key it names).
MeantKey(h) == IF h.detached THEN h.args[1].s ELSE call[h.owner].finalKey

\* The answer to h, with what held of the call's key when h was executed
\* (for the reads and the deletes, which are what is asked of them).
Reply(h, err, val, changed, expiring) ==
  [owner |-> h.owner, detached |-> h.detached, tracked |-> h.tracked,
   cmd |-> h.cmd, key |-> MeantKey(h), err |-> err, val |-> val,
   existed |-> h.cmd = "del" /\ MeantKey(h) \in DOMAIN store,
   wasLive |-> h.cmd = "get" /\ MeantKey(h) \in live,
   knew |-> IF h.cmd \in {"get", "del"} /\ MeantKey(h) \in DOMAIN known[h.owner]
            THEN known[h.owner][MeantKey(h)] ELSE JsUndefined,
   knewEntry |-> IF /\ h.cmd = "get"
                    /\ ~h.detached
                    /\ entry.held
                    /\ entry.key = call[h.owner].key
                    /\ entry.props = PropSet(call[h.owner].params)
                 THEN JsStr(entry.value) ELSE JsUndefined,
   knewWrote |-> IF /\ h.cmd = "get"
                    /\ ~h.detached
                    /\ MeantKey(h) \in DOMAIN bulk[h.owner].wrote
                 THEN JsStr(bulk[h.owner].wrote[MeantKey(h)]) ELSE JsUndefined,
   changed |-> changed, expiring |-> expiring]

\* What the callers know once the store has written at key for h: the owner
\* of h knows what its call left (v; JsNull: deleted), the others nothing.
KnownAfterWrite(h, key, v) ==
  [c \in Callers |->
     IF c = h.owner THEN Put(Drop(known[c], key), MeantKey(h), v)
     ELSE Drop(known[c], key)]

\* The quiet of a delFromPattern is over: something else wrote to the store.
\* What the store held before the call is kept only while the quiet lasts.
Unquiet(b) == [b EXCEPT !.quiet = FALSE, !.before = EmptyMap]

\* A write that is not one of caller c's own tracked deletes ends the quiet
\* of c's delFromPattern.
Disturbed(h) ==
  [c \in Callers |->
     IF h.detached /\ h.tracked /\ h.owner = c THEN bulk[c] ELSE Unquiet(bulk[c])]

\* The store has listed the keys for caller c's delFromPattern: its snapshot.
Snapped(c, listing) ==
  [bulk EXCEPT ![c] = [@ EXCEPT !.snapped = TRUE, !.snapshot = Range(listing)]]

\* A key is set: for a delFromPattern whose snapshot the key was not in, a
\* key of its pattern has come late.
Inserted(bs, key) ==
  [c \in Callers |->
     IF bs[c].snapped /\ key \notin bs[c].snapshot /\ GlobMatch(bs[c].pattern, key)
     THEN [bs[c] EXCEPT !.late = @ \cup {key}]
     ELSE bs[c]]

\* Keys are gone by something other than caller c's own tracked deletes:
\* they are no longer late keys of c's delFromPattern.
Removed(bs, h, keys) ==
  [c \in Callers |->
     IF h.detached /\ h.tracked /\ h.owner = c THEN bs[c]
     ELSE [bs[c] EXCEPT !.late = @ \ keys]]

\* What a caller's own awaited set, made after its delFromPattern had
\* resolved, left at a key of the listing: kept until a write that is not
\* one of the deletes its delFromPattern calls left behind.
WroteAfterSet(bs, h, key) ==
  [c \in Callers |->
     IF /\ h.owner = c /\ ~h.detached
        /\ bs[c].status = "resolved"
        /\ MeantKey(h) \in Range(bs[c].listing)
     THEN [bs[c] EXCEPT !.wrote = Put(Drop(@, key), MeantKey(h), call[c].value)]
     ELSE [bs[c] EXCEPT !.wrote = Drop(@, key)]]

WroteAfterDel(bs, h, key) ==
  [c \in Callers |->
     IF h.owner = c /\ h.detached THEN bs[c]
     ELSE [bs[c] EXCEPT !.wrote = Drop(@, key)]]

\* SET key value [EX seconds]
StoreSet ==
  /\ wire # <<>>
  /\ Head(wire).cmd = "set"
  /\ LET h == Head(wire)
         key == h.args[1].s
         value == h.args[2].s
         after == Put(store, key, value)
         expiry == IF Len(h.args) = 4 /\ h.args[3] = JsStr("EX")
                   THEN Put(ttl, key, h.args[4].n)
                   ELSE Drop(ttl, key)
     IN /\ store' = after
        /\ ttl' = expiry
        /\ replies' = Append(replies,
             Reply(h, FALSE, JsStr("OK"), FALSE, MeantKey(h) \in DOMAIN expiry))
        /\ known' = KnownAfterWrite(h, key, JsStr(call[h.owner].value))
        /\ live' = live \cup {key}
        /\ entry' = IF call[h.owner].op = "setFromParams"
                    THEN [held |-> TRUE, key |-> call[h.owner].key,
                          props |-> PropSet(call[h.owner].params),
                          finalKey |-> call[h.owner].finalKey,
                          value |-> call[h.owner].value]
                    ELSE NoEntry
        /\ bulk' = WroteAfterSet(Inserted(Disturbed(h), key), h, key)
  /\ wire' = Tail(wire)
  /\ UNCHANGED call

\* GET key
StoreGet ==
  /\ wire # <<>>
  /\ Head(wire).cmd = "get"
  /\ LET h == Head(wire)
         key == h.args[1].s
     IN replies' = Append(replies,
          Reply(h, FALSE, IF key \in DOMAIN store THEN JsStr(store[key]) ELSE JsNull,
                FALSE, FALSE))
  /\ wire' = Tail(wire)
  /\ UNCHANGED <<store, ttl, call, known, live, entry, bulk>>

\* DEL key
StoreDel ==
  /\ wire # <<>>
  /\ Head(wire).cmd = "del"
  /\ LET h == Head(wire)
         key == h.args[1].s
         after == Drop(store, key)
     IN /\ store' = after
        /\ ttl' = Drop(ttl, key)
        /\ replies' = Append(replies,
             Reply(h, FALSE, JsNum(IF key \in DOMAIN store THEN 1 ELSE 0),
                   after # store, FALSE))
        /\ known' = KnownAfterWrite(h, key, JsNull)
        /\ live' = live \ {key}
        /\ bulk' = WroteAfterDel(Removed(Disturbed(h), h, {key}), h, key)
  /\ wire' = Tail(wire)
  /\ entry' = NoEntry
  /\ UNCHANGED call

\* KEYS pattern: the matching keys, in an order of the store's choosing.
StoreKeys ==
  /\ wire # <<>>
  /\ Head(wire).cmd = "keys"
  /\ LET h == Head(wire)
         pattern == h.args[1].s
     IN \E listing \in Orderings({k \in DOMAIN store : GlobMatch(pattern, k)}) :
          /\ replies' = Append(replies, Reply(h, FALSE, JsArr(listing), FALSE, FALSE))
          /\ bulk' = IF ~h.detached /\ call[h.owner].op = "delFromPattern"
                      THEN Snapped(h.owner, listing)
                      ELSE bulk
  /\ wire' = Tail(wire)
  /\ UNCHANGED <<store, ttl, call, known, live, entry>>

\* The command fails (the connection, or a malformed answer): nothing is
\* executed and an error is what comes back.
StoreFail(e) ==
  /\ wire # <<>>
  /\ replies' = Append(replies, Reply(Head(wire), TRUE, JsErr(e), FALSE, FALSE))
  /\ wire' = Tail(wire)
  /\ UNCHANGED <<store, ttl, call, known, live, entry, bulk>>

\* A second passes: the keys whose time is up are gone.
Tick ==
  /\ DOMAIN ttl # {}
  /\ LET gone == {k \in DOMAIN ttl : ttl[k] <= 1}
     IN /\ store' = DropAll(store, gone)
        /\ ttl' = [k \in (DOMAIN ttl) \ gone |-> ttl[k] - 1]
        /\ known' = [c \in Callers |-> DropAll(known[c], gone)]
        /\ entry' = IF gone = {} THEN entry ELSE NoEntry
        /\ bulk' = [c \in Callers |->
             IF gone = {} THEN bulk[c]
             ELSE [Unquiet(bulk[c]) EXCEPT !.late = @ \ gone,
                                           !.wrote = DropAll(@, gone)]]
  /\ UNCHANGED <<wire, replies, call, live>>

(***************************************************************************)
(* The callbacks: the oldest reply is handed to the promise of its call.   *)
(***************************************************************************)
\* A callback that takes a null value for a failure.
PromisifiedNullRejects(r) ==
  IF r.err \/ r.val = JsNull THEN [status |-> "rejected", result |-> r.val]
  ELSE [status |-> "resolved", result |-> r.val]

\* A callback that drops the value.
PromisifiedNoValue(r) ==
  IF r.err THEN [status |-> "rejected", result |-> r.val]
  ELSE [status |-> "resolved", result |-> JsUndefined]

\* A callback that swallows the error.
PromisifiedSwallows(r) ==
  IF r.err THEN [status |-> "resolved", result |-> JsNull]
  ELSE [status |-> "resolved", result |-> r.val]

\* util.promisify: the promise rejects with the callback's error, or
\* resolves with its value.
Promisified(r) ==
  IF r.err THEN [status |-> "rejected", result |-> r.val]
  ELSE [status |-> "resolved", result |-> r.val]

\* The promise of set, get, getKeys, del or a FromParams variant settles.
Settle ==
  /\ ~Draining
  /\ replies # <<>>
  /\ ~Head(replies).detached
  /\ call[Head(replies).owner].op # "delFromPattern"
  /\ LET r == Head(replies)
         out == Promisified(r)
     IN call' = [call EXCEPT ![r.owner] =
          [@ EXCEPT !.status = out.status, !.result = out.result,
                    !.storeErr = r.err, !.storeVal = r.val,
                    !.existed = r.existed, !.wasLive = r.wasLive,
                    !.knew = r.knew, !.knewEntry = r.knewEntry,
                    !.knewWrote = r.knewWrote,
                    !.changed = r.changed, !.expiring = r.expiring]]
  /\ replies' = Tail(replies)
  /\ UNCHANGED <<store, ttl, wire, known, live, entry, bulk>>

\* A delFromPattern that catches the listing's error and resolves.
DelFromPatternSwallows ==
  /\ ~Draining
  /\ replies # <<>>
  /\ ~Head(replies).detached
  /\ call[Head(replies).owner].op = "delFromPattern"
  /\ Promisified(Head(replies)).status = "rejected"
  /\ LET r == Head(replies)
     IN /\ call' = [call EXCEPT ![r.owner] =
          [@ EXCEPT !.status = "resolved", !.result = JsUndefined,
                    !.storeErr = r.err, !.storeVal = r.val]]
        /\ bulk' = [bulk EXCEPT ![r.owner] =
             [@ EXCEPT !.status = "resolved", !.result = JsUndefined]]
  /\ replies' = Tail(replies)
  /\ UNCHANGED <<store, ttl, wire, known, live, entry>>

\* delFromPattern: `await this.getKeys(pattern)` throws, the call rejects.
DelFromPatternRejected ==
  /\ ~Draining
  /\ replies # <<>>
  /\ ~Head(replies).detached
  /\ call[Head(replies).owner].op = "delFromPattern"
  /\ Promisified(Head(replies)).status = "rejected"
  /\ LET r == Head(replies)
     IN /\ call' = [call EXCEPT ![r.owner] =
          [@ EXCEPT !.status = "rejected", !.result = Promisified(r).result,
                    !.storeErr = r.err, !.storeVal = r.val]]
        /\ bulk' = [bulk EXCEPT ![r.owner] =
             [@ EXCEPT !.status = "rejected", !.result = Promisified(r).result]]
  /\ replies' = Tail(replies)
  /\ UNCHANGED <<store, ttl, wire, known, live, entry>>

\* A loop over the keys of the prefix, whatever the listing held.
DeletesIssuedWholePrefix(all) == <<"prefix:a", "prefix:b">>

\* A loop that also deletes a key the listing did not hold.
DeletesIssuedAndOther(all) == Append(all, "other:c")

\* A loop that returns from its first round.
DeletesIssuedFirstOnly(all) == IF all = <<>> THEN <<>> ELSE <<Head(all)>>

\* The keys `for (const item of all) this.del(item)` calls del for.
DeletesIssued(all) == all

\* A loop that reads each key instead of deleting it.
DetachedDelReads(c, key) ==
  [owner |-> c, detached |-> TRUE, tracked |-> TRUE, cmd |-> "get",
   args |-> <<JsStr(key)>>]

DetachedDel(c, key) ==
  [owner |-> c, detached |-> TRUE, tracked |-> TRUE, cmd |-> "del",
   args |-> <<JsStr(key)>>]

\* delFromPattern after its await: a del is called for every listed key, no
\* promise of them is kept, and the call resolves.
DelFromPatternContinue ==
  /\ ~Draining
  /\ replies # <<>>
  /\ ~Head(replies).detached
  /\ call[Head(replies).owner].op = "delFromPattern"
  /\ Promisified(Head(replies)).status = "resolved"
  /\ LET r == Head(replies)
         c == r.owner
         all == Promisified(r).result.a
         dels == DeletesIssued(all)
     IN /\ InFlight - 1 + Len(dels) <= MaxInFlight
        /\ wire' = wire \o [i \in 1..Len(dels) |-> DetachedDel(c, dels[i])]
        /\ call' = [call EXCEPT ![c] =
             [@ EXCEPT !.status = "resolved", !.result = JsUndefined]]
        /\ bulk' = [bulk EXCEPT ![c] =
             [@ EXCEPT !.status = "resolved", !.result = JsUndefined,
                       !.listed = TRUE, !.listing = all, !.issued = dels]]
  /\ replies' = Tail(replies)
  /\ UNCHANGED <<store, ttl, known, live, entry>>

\* The promise of a del that delFromPattern called settles; nobody holds it.
DetachedSettled ==
  /\ ~Draining
  /\ replies # <<>>
  /\ Head(replies).detached
  /\ LET r == Head(replies)
         out == Promisified(r)
     IN bulk' = [bulk EXCEPT ![r.owner] =
          IF ~r.tracked THEN @
          ELSE IF out.status = "rejected"
               THEN [@ EXCEPT !.failed = @ \cup {r.key}]
               ELSE [@ EXCEPT !.ok = @ \cup {r.key}]]
  /\ replies' = Tail(replies)
  /\ UNCHANGED <<store, ttl, wire, call, known, live, entry>>

\* The awaiting caller takes the outcome of its call and goes on.
Resume(c) ==
  /\ call[c].status \in {"resolved", "rejected", "thrown"}
  /\ call' = [call EXCEPT ![c] = NoCall]
  /\ UNCHANGED <<store, ttl, wire, replies, known, live, entry, bulk>>

(***************************************************************************)
(* Specifications.                                                         *)
(***************************************************************************)
StoreStep(errors) ==
  \/ StoreSet
  \/ StoreGet
  \/ StoreDel
  \/ StoreKeys
  \/ \E e \in errors : StoreFail(e)

\* The (option, optionValue) pairs callers pass to set.
Paired == {<<JsUndefined, JsUndefined>>, <<JsStr("EX"), JsNum(1)>>}
Unpaired == {<<JsStr("EX"), JsUndefined>>, <<JsUndefined, JsNum(1)>>}

\* Spec: two callers race on the single-key calls and the listing.
PlainKeys == {"prefix:a", "other:c"}
PlainPatterns == {"prefix:*"}
PlainStores == {EmptyMap, [k \in {"other:c"} |-> "X"]}

Init == \E s \in PlainStores : InitWith(s)

Next ==
  \/ \E c \in Callers, k \in PlainKeys, v \in Values, m \in Paired :
       Set(c, k, v, m[1], m[2])
  \/ \E c \in Callers, k \in PlainKeys : Get(c, k)
  \/ \E c \in Callers, k \in PlainKeys : Del(c, k)
  \/ \E c \in Callers, p \in PlainPatterns : GetKeys(c, p)
  \/ StoreStep({"StoreUnavailableError"})
  \/ Tick
  \/ Settle
  \/ \E c \in Callers : Resume(c)

Spec == Init /\ [][Next]_vars

\* SpecParams: one caller uses the FromParams variants, and the plain calls
\* on the keys they derive.
ParamBases == {"user"}
ParamObjects ==
  {<<Prop("id", JsNum(1)), Prop("name", JsStr("a"))>>,
   <<Prop("name", JsStr("a")), Prop("id", JsNum(1))>>,
   <<Prop("id", JsNum(2)), Prop("name", JsStr("a"))>>}
DerivedKeys == {FinalKey(b, p) : b \in ParamBases, p \in ParamObjects}
ParamPatterns == {"user:*"}

InitParams == InitWith(EmptyMap)

NextParams ==
  \/ \E b \in ParamBases, p \in ParamObjects, v \in Values, m \in Paired \cup Unpaired :
       SetFromParams("c1", b, p, v, m[1], m[2])
  \/ \E b \in ParamBases, p \in ParamObjects : GetFromParams("c1", b, p)
  \/ \E b \in ParamBases, p \in ParamObjects : DelFromParams("c1", b, p)
  \/ \E k \in DerivedKeys, v \in Values, m \in Paired \cup Unpaired :
       Set("c1", k, v, m[1], m[2])
  \/ \E k \in DerivedKeys : Get("c1", k)
  \/ \E k \in DerivedKeys : Del("c1", k)
  \/ \E p \in ParamPatterns : GetKeys("c1", p)
  \/ StoreStep(StoreErrors)
  \/ Tick
  \/ Settle
  \/ Resume("c1")

SpecParams == InitParams /\ [][NextParams]_vars

\* SpecBulk: two callers, delFromPattern against writes, reads and deletes.
BulkKeys == {"prefix:a", "prefix:b", "other:c"}
BulkWritten == {"prefix:a"}
BulkPatterns == {"prefix:*"}
BulkStores == {[k \in BulkKeys |-> "X"], [k \in BulkKeys \ BulkWritten |-> "X"]}

InitBulk == \E s \in BulkStores : InitWith(s)

NextBulk ==
  \/ \E c \in Callers, p \in BulkPatterns : DelFromPattern(c, p)
  \/ \E c \in Callers, k \in BulkWritten : Set(c, k, "Y", JsUndefined, JsUndefined)
  \/ \E c \in Callers, k \in BulkWritten : Get(c, k)
  \/ \E c \in Callers, k \in BulkWritten : Del(c, k)
  \/ StoreStep({"StoreUnavailableError"})
  \/ DelFromPatternRejected
  \/ DelFromPatternContinue
  \/ DetachedSettled
  \/ Settle
  \/ \E c \in Callers : Resume(c)

SpecBulk == InitBulk /\ [][NextBulk]_vars

\* SpecDrain: delFromPattern with nobody setting keys, and a store that
\* executes every command written to the connection.
StoreAnswers == StoreGet \/ StoreDel \/ StoreKeys

NextDrain ==
  \/ \E c \in Callers, p \in BulkPatterns : DelFromPattern(c, p)
  \/ \E c \in Callers, k \in BulkWritten : Get(c, k)
  \/ \E c \in Callers, k \in BulkWritten : Del(c, k)
  \/ StoreAnswers
  \/ DelFromPatternContinue
  \/ DetachedSettled
  \/ Settle
  \/ \E c \in Callers : Resume(c)

SpecDrain == InitBulk /\ [][NextDrain]_vars /\ WF_vars(StoreAnswers)

\* SpecDerive: one caller uses the FromParams variants with parameter
\* objects that JSON has no text of their own for.
DeriveObjects ==
  {<<Prop("id", JsNum(1))>>,
   <<Prop("id", JsNum(1)), Prop("cb", JsFunc)>>,
   <<Prop("id", JsNull)>>,
   <<Prop("id", JsNaN)>>,
   <<Prop("id", JsNum(1)), Prop("self", JsCyclic)>>}

InitDerive == InitWith(EmptyMap)

NextDerive ==
  \/ \E b \in ParamBases, p \in DeriveObjects, v \in Values :
       SetFromParams("c1", b, p, v, JsUndefined, JsUndefined)
  \/ \E b \in ParamBases, p \in DeriveObjects : GetFromParams("c1", b, p)
  \/ \E b \in ParamBases, p \in DeriveObjects : DelFromParams("c1", b, p)
  \/ \E op \in FromParamsOps, b \in ParamBases, p \in DeriveObjects :
       FromParamsThrows("c1", op, b, p)
  \/ StoreSet
  \/ StoreGet
  \/ StoreDel
  \/ StoreFail("StoreUnavailableError")
  \/ Settle
  \/ Resume("c1")

SpecDerive == InitDerive /\ [][NextDerive]_vars

(***************************************************************************)
(* delFromPattern.                                                         *)
(***************************************************************************)
\* A delete that caller c's latest delFromPattern called for key k is still
\* outstanding: written and not executed, or answered and not handed over.
Outstanding(c, k) ==
  \/ \E i \in 1..Len(wire) :
       /\ wire[i].owner = c /\ wire[i].detached /\ wire[i].tracked
       /\ wire[i].args = <<JsStr(k)>>
  \/ \E i \in 1..Len(replies) :
       /\ replies[i].owner = c /\ replies[i].detached /\ replies[i].tracked
       /\ replies[i].key = k

\* The promise of caller c's call has settled.
Settled(c) == call[c].status \in {"resolved", "rejected"}

\* Caller c is being told that its delFromPattern resolved.
BulkResolved(c) == call[c].op = "delFromPattern" /\ call[c].status = "resolved"

\* C1: with no concurrent writers and no store failures, once the promise of
\* delFromPattern(pattern) has resolved, every key that matched the pattern
\* before the call is absent from the store and every other key is still
\* present with its value unchanged.
C1_ResolvedMeansMatchesGone ==
  \A c \in Callers :
    (BulkResolved(c) /\ bulk[c].quiet /\ bulk[c].failed = {}) =>
      \A k \in DOMAIN bulk[c].before :
        IF GlobMatch(bulk[c].pattern, k)
        THEN k \notin DOMAIN store
        ELSE k \in DOMAIN store /\ store[k] = bulk[c].before[k]

\* C2: when the listing of delFromPattern succeeded and one or more of the
\* per-key deletes failed, the caller of delFromPattern is told: its promise
\* rejects with a PartialBulkFailure that carries exactly the keys whose
\* delete failed.
C2_FailedDeletesReported ==
  \A c \in Callers :
    (bulk[c].listed /\ bulk[c].failed # {}
       /\ \A k \in Range(bulk[c].listing) : ~Outstanding(c, k)) =>
      /\ bulk[c].status = "rejected"
      /\ bulk[c].result.t = "error"
      /\ bulk[c].result.s = "PartialBulkFailure"
      /\ Range(bulk[c].result.a) = bulk[c].failed

\* C3: the failure of the delete of one listed key neither prevents nor
\* cancels the delete of another: whatever deletes have failed, every listed
\* key has had its delete issued, that delete is outstanding or has settled,
\* and a key whose delete succeeded is gone from the store (as long as
\* nobody else wrote to the store since the call).
C3_FailureCancelsNothing ==
  \A c \in Callers :
    bulk[c].listed =>
      \A k \in Range(bulk[c].listing) :
        /\ k \in Range(bulk[c].issued)
        /\ Outstanding(c, k) \/ k \in bulk[c].ok \cup bulk[c].failed
        /\ (k \in bulk[c].ok /\ bulk[c].quiet) => k \notin DOMAIN store

\* C3's case: of the deletes of one delFromPattern, one has failed and
\* another has succeeded, and its key is gone.
C3_Witness ==
  \E c \in Callers :
    /\ bulk[c].listed /\ bulk[c].quiet
    /\ bulk[c].failed # {}
    /\ bulk[c].ok # {}
    /\ Range(bulk[c].listing) = bulk[c].ok \cup bulk[c].failed
    /\ \A k \in bulk[c].ok : k \notin DOMAIN store

\* C4: when the promise of delFromPattern settles, every key of its listing
\* has had a delete attempted exactly once, and none of these deletes is
\* still outstanding.
C4_SettledMeansAllAttempted ==
  \A c \in Callers :
    (call[c].op = "delFromPattern" /\ call[c].status \in {"resolved", "rejected"}
       /\ bulk[c].listed) =>
      \A k \in Range(bulk[c].listing) :
        /\ Occurrences(bulk[c].issued, k) = 1
        /\ ~Outstanding(c, k)
        /\ k \in bulk[c].ok \cup bulk[c].failed

\* C13: delFromPattern is snapshot-then-delete: a key of the pattern that a
\* concurrent writer inserts after the listing was taken (it was not in the
\* snapshot) gets no delete from that call and is not removed by it; it
\* stays until somebody else removes it, also after the call has completed.
C13_LateKeysKept ==
  \A c \in Callers :
    \A k \in bulk[c].late :
      /\ k \in DOMAIN store
      /\ ~Outstanding(c, k)
      /\ bulk[c].listed => k \notin Range(bulk[c].issued)

\* C13's case: the call has completed, every delete it issued has settled,
\* and a key of its pattern inserted after its snapshot is in the store.
C13_Witness ==
  \E c \in Callers :
    /\ bulk[c].status = "resolved" /\ call[c].status = "idle"
    /\ bulk[c].listing # <<>>
    /\ Range(bulk[c].listing) = bulk[c].ok
    /\ \E k \in bulk[c].late : GlobMatch(bulk[c].pattern, k) /\ k \in DOMAIN store

\* C16: a write the same caller makes after awaiting delFromPattern is not
\* undone by the deletes that call left in flight: after
\* await delFromPattern(pattern) and await set(k, v) for a listed key k, the
\* store holds v at k and get(k) returns v, until someone writes k again.
C16_WriteAfterBulkKept ==
  \A c \in Callers :
    /\ \A k \in DOMAIN bulk[c].wrote :
         k \in DOMAIN store /\ store[k] = bulk[c].wrote[k]
    /\ (call[c].op = "get" /\ call[c].status = "resolved"
           /\ call[c].knewWrote.t = "string") =>
         call[c].result = call[c].knewWrote

\* C16's case: the call's delete of k was executed, the caller's later set
\* wrote k again, and get has returned the value it wrote.
C16_Witness ==
  \E c \in Callers :
    /\ call[c].op = "get" /\ call[c].status = "resolved"
    /\ call[c].knewWrote = JsStr("Y")
    /\ call[c].result = JsStr("Y")
    /\ call[c].key \in bulk[c].ok

\* The keys of the deletes that caller c's latest delFromPattern called and
\* that are still in flight.
TrackedKeys(c) ==
  {wire[i].args[1].s : i \in {j \in 1..Len(wire) :
     wire[j].owner = c /\ wire[j].detached /\ wire[j].tracked}}
    \cup {replies[i].key : i \in {j \in 1..Len(replies) :
     replies[j].owner = c /\ replies[j].detached /\ replies[j].tracked}}

\* C17: whatever the other callers do, delFromPattern calls del only for
\* the keys its own listing returned (for none when it is empty), which are
\* the keys the store's snapshot held, all matching the pattern; so while
\* nobody else writes, a key that did not match keeps its value and a key is
\* gone only by a delete of a listed key.
C17_DeletesOnlyListed ==
  \A c \in Callers :
    LET listed == Range(bulk[c].listing)
    IN /\ \A i \in 1..Len(wire) :
            /\ wire[i].detached => wire[i].cmd = "del"
            /\ (wire[i].detached /\ wire[i].tracked /\ wire[i].owner = c) =>
                 wire[i].args[1].s \in listed
       /\ \A i \in 1..Len(replies) :
            (replies[i].detached /\ replies[i].tracked /\ replies[i].owner = c) =>
              replies[i].key \in listed
       /\ bulk[c].ok \subseteq listed
       /\ bulk[c].failed \subseteq listed
       /\ bulk[c].listed =>
            /\ Range(bulk[c].issued) \subseteq listed
            /\ Len(bulk[c].issued) <= Len(bulk[c].listing)
            /\ listed = bulk[c].snapshot
       /\ (bulk[c].snapped /\ ~bulk[c].listed) =>
            \A k \in bulk[c].snapshot : GlobMatch(bulk[c].pattern, k)
       /\ bulk[c].quiet =>
            \A k \in DOMAIN bulk[c].before :
              /\ ~GlobMatch(bulk[c].pattern, k) =>
                   (k \in DOMAIN store /\ store[k] = bulk[c].before[k])
              /\ k \notin DOMAIN store =>
                   (bulk[c].listed /\ k \in Range(bulk[c].issued) /\ k \notin bulk[c].failed)

\* C17's case: with both callers in delFromPattern, one's listing came back
\* empty and it issued no delete, while the other's deletes removed the
\* keys of the prefix; the key outside the pattern is there.
C17_Witness ==
  \E c, d \in Callers :
    /\ c # d
    /\ bulk[c].listed /\ bulk[c].listing = <<>> /\ bulk[c].issued = <<>>
    /\ bulk[d].listed /\ bulk[d].ok = {"prefix:a", "prefix:b"}
    /\ "other:c" \in DOMAIN store

\* C18: when the listing of delFromPattern fails, the promise of
\* delFromPattern rejects with the listing's error, no delete is issued and
\* the store is as it was before the call (as long as nobody else wrote).
C18_ListingFailureRejects ==
  \A c \in Callers :
    /\ (call[c].op = "delFromPattern" /\ Settled(c) /\ call[c].storeErr) =>
         /\ call[c].status = "rejected"
         /\ call[c].result.t = "error"
         /\ call[c].result = call[c].storeVal
         /\ bulk[c].status = "rejected"
    /\ (call[c].op = "delFromPattern" /\ call[c].status = "rejected") =>
         call[c].storeErr
    /\ bulk[c].status = "rejected" =>
         /\ bulk[c].result.t = "error"
         /\ ~bulk[c].listed
         /\ bulk[c].issued = <<>>
         /\ TrackedKeys(c) = {}
         /\ bulk[c].ok \cup bulk[c].failed = {}
         /\ bulk[c].quiet => store = bulk[c].before

\* C18's case: the listing failed, the call is rejected with the store's
\* error, and the keys of the pattern are all still there.
C18_Witness ==
  \E c \in Callers :
    /\ call[c].op = "delFromPattern" /\ call[c].status = "rejected"
    /\ call[c].result = JsErr("StoreUnavailableError")
    /\ bulk[c].quiet
    /\ {"prefix:a", "prefix:b"} \subseteq DOMAIN store
    /\ wire = <<>> /\ replies = <<>>

\* C20: if the store answers every command and nobody sets keys, every key
\* that the listing of a delFromPattern returned is eventually absent from
\* the store, whether or not the caller goes on after the promise of
\* delFromPattern has resolved.
C20_ListedKeysEventuallyGone ==
  \A c \in Callers : \A k \in BulkKeys :
    (bulk[c].listed /\ k \in Range(bulk[c].listing)) ~> (k \notin DOMAIN store)

\* C20's case: the promise has resolved, the caller has gone on, and every
\* key of the listing has since left the store.
C20_Witness ==
  \E c \in Callers :
    /\ bulk[c].status = "resolved" /\ call[c].status = "idle"
    /\ Len(bulk[c].listing) = 2
    /\ \A k \in Range(bulk[c].listing) : k \notin DOMAIN store

(***************************************************************************)
(* The single-key calls.                                                   *)
(***************************************************************************)
\* The modifier pair of caller c's call is complete.
PairGiven(c) == call[c].option # JsUndefined /\ call[c].optionValue # JsUndefined

\* C5: key derivation does not depend on the order of the fields: a
\* FromParams call whose parameters are structurally equal to those of the
\* entry setFromParams wrote uses the key of that entry, and getFromParams
\* then returns its value.
C5_FieldOrderIndependent ==
  \A c \in Callers :
    /\ (/\ call[c].op \in {"getFromParams", "delFromParams", "setFromParams"}
        /\ call[c].status = "pending"
        /\ entry.held
        /\ entry.key = call[c].key
        /\ entry.props = PropSet(call[c].params)) =>
         call[c].finalKey = entry.finalKey
    /\ (/\ call[c].op = "getFromParams"
        /\ call[c].status = "resolved"
        /\ call[c].knewEntry.t = "string") =>
         call[c].result = call[c].knewEntry

\* C6: get(k) after this caller's awaited set(k, v), with no write, delete or
\* expiry of k in between, returns v: the v of the last such set.
C6_SetThenGet ==
  \A c \in Callers :
    (call[c].op = "get" /\ call[c].status = "resolved" /\ call[c].knew.t = "string") =>
      call[c].result = call[c].knew

\* C6's case: get has returned the value this caller's last set left.
C6_Witness ==
  \E c \in Callers :
    /\ call[c].op = "get" /\ call[c].status = "resolved"
    /\ call[c].knew = JsStr("Y")
    /\ call[c].result = JsStr("Y")

\* C7: get(k) on a key that was never set, or that was deleted and not set
\* again, resolves with null, and leaves the store as it was; get rejects
\* only when the store command itself failed.
C7_AbsentIsNull ==
  \A c \in Callers :
    (call[c].op = "get" /\ Settled(c)) =>
      /\ call[c].status = "rejected" => call[c].storeErr
      /\ (~call[c].storeErr /\ ~call[c].wasLive) =>
           /\ call[c].status = "resolved"
           /\ call[c].result = JsNull
           /\ ~call[c].changed

\* C7's case: get has resolved with null for a key that delFromPattern had
\* deleted.
C7_Witness ==
  \E c \in Callers :
    /\ call[c].op = "get" /\ call[c].status = "resolved"
    /\ ~call[c].wasLive
    /\ call[c].result = JsNull
    /\ \E d \in Callers : call[c].key \in bulk[d].ok

\* C8: del(k) resolves with the number of entries removed: 1 when k was
\* there, 0 when it was not (never an error); a del right after this
\* caller's own del of k resolves with 0 and changes nothing.
C8_DelCounts ==
  \A c \in Callers :
    (call[c].op = "del" /\ Settled(c)) =>
      /\ call[c].status = "rejected" => call[c].storeErr
      /\ ~call[c].storeErr =>
           /\ call[c].status = "resolved"
           /\ call[c].result = JsNum(IF call[c].existed THEN 1 ELSE 0)
           /\ call[c].changed = call[c].existed
           /\ call[c].knew = JsNull =>
                (call[c].result = JsNum(0) /\ ~call[c].changed)

\* C8's case: the second of two dels in a row has resolved with 0.
C8_Witness ==
  \E c \in Callers :
    /\ call[c].op = "del" /\ call[c].status = "resolved"
    /\ call[c].knew = JsNull
    /\ call[c].result = JsNum(0)

\* C9: when the store command behind set, get, del, getKeys or a FromParams
\* variant fails, the promise rejects with that very error, one command was
\* issued for the call and none is issued again.
C9_StoreErrorPropagates ==
  \A c \in Callers :
    (call[c].op \notin {"none", "delFromPattern"} /\ Settled(c) /\ call[c].storeErr) =>
      /\ call[c].status = "rejected"
      /\ call[c].result = call[c].storeVal
      /\ call[c].sent = 1
      /\ \A i \in 1..Len(wire) : wire[i].owner = c => wire[i].detached
      /\ \A i \in 1..Len(replies) : replies[i].owner = c => replies[i].detached

\* C9's case: a FromParams call has been rejected with the store's error.
C9_Witness ==
  \E c \in Callers :
    /\ call[c].op = "getFromParams" /\ call[c].status = "rejected"
    /\ call[c].storeErr
    /\ call[c].result = JsErr("StoreProtocolError")

\* C10: set and setFromParams pass the modifier on only when both option and
\* optionValue are given; with one of the two the command is that of
\* set(key, value), and the entry it writes does not expire.
C10_UnpairedModifierIgnored ==
  \A c \in Callers :
    (call[c].op \in {"set", "setFromParams"}) =>
      /\ call[c].args =
           IF PairGiven(c)
           THEN <<JsStr(call[c].finalKey), JsStr(call[c].value),
                  call[c].option, call[c].optionValue>>
           ELSE <<JsStr(call[c].finalKey), JsStr(call[c].value)>>
      /\ \A i \in 1..Len(wire) :
           (wire[i].owner = c /\ ~wire[i].detached) => wire[i].args = call[c].args
      /\ call[c].status = "resolved" => (call[c].expiring <=> PairGiven(c))

\* C10's case: a setFromParams with one of the two has resolved, and its
\* entry does not expire.
C10_Witness ==
  \E c \in Callers :
    /\ call[c].op = "setFromParams" /\ call[c].status = "resolved"
    /\ call[c].option = JsStr("EX") /\ call[c].optionValue = JsUndefined
    /\ Len(call[c].args) = 2
    /\ ~call[c].expiring

\* The commands of caller c's awaited calls that are in flight.
Awaited(c) ==
  Cardinality({i \in 1..Len(wire) : wire[i].owner = c /\ ~wire[i].detached})
    + Cardinality({i \in 1..Len(replies) : replies[i].owner = c /\ ~replies[i].detached})

\* C15: a single caller that awaits each call before the next has its
\* commands executed by the store in the order of the calls: a call is
\* acknowledged only once the store has executed its command, so at most
\* one is in flight, and after each acknowledged set or del the key is as
\* the calls so far, applied in their order, leave it (an expiry asked for
\* aside).
C15_AwaitedInIssuanceOrder ==
  \A c \in Callers :
    /\ Awaited(c) <= 1
    /\ Awaited(c) = 1 => call[c].status = "pending"
    /\ (call[c].op \in {"set", "setFromParams"} /\ call[c].status = "resolved") =>
         /\ call[c].finalKey \in DOMAIN store => store[call[c].finalKey] = call[c].value
         /\ ~call[c].expiring => call[c].finalKey \in DOMAIN store
    /\ (call[c].op \in {"del", "delFromParams"} /\ call[c].status = "resolved") =>
         call[c].finalKey \notin DOMAIN store
    /\ call[c].status # "pending" =>
         \A k \in DOMAIN known[c] :
           IF known[c][k] = JsNull THEN k \notin DOMAIN store
           ELSE k \in DOMAIN store /\ JsStr(store[k]) = known[c][k]

\* C15's case: set(k, "X"), set(k, "Y") and del(k) awaited in turn, and k is
\* gone: the del was the last the store saw.
C15_Witness ==
  \E c \in Callers :
    /\ call[c].op = "del" /\ call[c].status = "resolved"
    /\ call[c].knew = JsStr("Y")
    /\ call[c].finalKey \notin DOMAIN store

\* The keys at which a step changes the store.
ChangedKeys ==
  {k \in (DOMAIN store) \cup (DOMAIN store') :
     IF k \in DOMAIN store /\ k \in DOMAIN store' THEN store[k] # store'[k] ELSE TRUE}

\* The step is the store executing the oldest command of the connection.
Executes(cmds) == wire # <<>> /\ wire' = Tail(wire) /\ Head(wire).cmd \in cmds

\* The answer the store gives in the step.
Answer == replies'[Len(replies')]

\* The frame of a step: the store changes only at the key of the set or del
\* being executed (or by an expiry that was asked for); a get is answered
\* with what the store holds at its key, a getKeys with the keys of the
\* store that match; and a get or getKeys resolves only with such an answer.
FrameStep ==
  /\ ChangedKeys # {} =>
       \/ Executes({"set", "del"}) /\ ChangedKeys \subseteq {MeantKey(Head(wire))}
       \/ wire' = wire /\ ChangedKeys \subseteq {k \in DOMAIN ttl : ttl[k] <= 1}
  /\ Executes({"get", "keys"}) => store' = store
  /\ (Executes({"get"}) /\ ~Answer.err) =>
       Answer.val = IF MeantKey(Head(wire)) \in DOMAIN store
                    THEN JsStr(store[MeantKey(Head(wire))]) ELSE JsNull
  /\ (Executes({"keys"}) /\ ~Answer.err) =>
       Range(Answer.val.a) = {k \in DOMAIN store : GlobMatch(MeantKey(Head(wire)), k)}
  /\ \A c \in Callers :
       (/\ call'[c].op \in {"get", "getKeys"}
        /\ call'[c].status = "resolved"
        /\ call[c].status # "resolved") =>
         /\ replies # <<>>
         /\ replies' = Tail(replies)
         /\ Head(replies).owner = c
         /\ ~Head(replies).err
         /\ call'[c].result = Head(replies).val
         /\ store' = store

\* C19: set(k, v) and del(k) leave every entry with another key unchanged,
\* get and getKeys leave the whole store unchanged, and the facade keeps no
\* entry of its own: every read is the store's answer, which is what the
\* store holds when it executes the read.
C19_SingleKeyFrame == [][FrameStep]_vars

\* C19's case: a set of prefix:a has been executed and acknowledged, the
\* entry of other:c is as it was, and a get of other:c has been answered
\* with it.
C19_Witness ==
  \E c, d \in Callers :
    /\ c # d
    /\ call[c].op = "set" /\ call[c].status = "resolved" /\ call[c].key = "prefix:a"
    /\ "prefix:a" \in DOMAIN store /\ store["prefix:a"] = "Y"
    /\ "other:c" \in DOMAIN store /\ store["other:c"] = "X"
    /\ call[d].op = "get" /\ call[d].key = "other:c"
    /\ replies # <<>> /\ Head(replies).owner = d /\ Head(replies).val = JsStr("X")

(***************************************************************************)
(* The FromParams variants.                                                *)
(***************************************************************************)
\* The key the FromParams call of caller c is to use, spelled out.
DerivedKey(c) == call[c].key \o ":" \o encryptParams(call[c].params)

\* C11: setFromParams, getFromParams and delFromParams write to the
\* connection the command that set, get and del write for the key
\* base + ":" + digest(params), and all three derive the same key: what this
\* caller's last write left at that key is what getFromParams returns, and
\* delFromParams removes it.
C11_FromParamsDelegate ==
  \A c \in Callers :
    /\ call[c].op = "setFromParams" =>
         /\ call[c].cmd = "set"
         /\ call[c].args =
              SetArgs(DerivedKey(c), call[c].value, call[c].option, call[c].optionValue)
    /\ call[c].op = "getFromParams" =>
         /\ call[c].cmd = "get"
         /\ call[c].args = <<JsStr(DerivedKey(c))>>
         /\ (call[c].status = "resolved" /\ call[c].knew.t = "string") =>
              call[c].result = call[c].knew
    /\ call[c].op = "delFromParams" =>
         /\ call[c].cmd = "del"
         /\ call[c].args = <<JsStr(DerivedKey(c))>>
         /\ (call[c].status = "resolved" /\ call[c].knew.t = "string") =>
              (call[c].result = JsNum(1) /\ call[c].changed)

\* C11's case: getFromParams has returned the value of the entry that
\* setFromParams wrote with the same base and parameters.
C11_Witness ==
  \E c \in Callers :
    /\ call[c].op = "getFromParams" /\ call[c].status = "resolved"
    /\ call[c].knewEntry = JsStr("Y")
    /\ entry.held /\ entry.finalKey = DerivedKey(c)
    /\ call[c].result = JsStr("Y")

\* A parameter object that has no serialization: it holds a function, or a
\* reference to itself.
Unserializable(props) == \E p \in props : p.val.t \in {"function", "cyclic"}

\* C12: a FromParams variant called with a serializable parameter object
\* derives its key without an error; called with a non-serializable one
\* (cyclic, or of an unsupported type) it fails at once with the
\* serialization's error, no command is written to the store and the store
\* is left as it was.
C12_UnserializableFails ==
  \A c \in Callers :
    call[c].op \in FromParamsOps =>
      IF Unserializable(PropSet(call[c].params))
      THEN /\ call[c].status = "thrown"
           /\ call[c].result.t = "error"
           /\ call[c].sent = 0
      ELSE /\ call[c].status # "thrown"
           /\ call[c].sent = 1

\* C14: for one base, parameter objects that are not semantically equal
\* derive different keys: a getFromParams or delFromParams whose (serializable)
\* parameters differ from those of the entry setFromParams wrote does not
\* use the key of that entry.
C14_DifferentParamsDifferentKeys ==
  \A c \in Callers :
    (/\ call[c].op \in {"getFromParams", "delFromParams"}
     /\ call[c].status # "thrown"
     /\ entry.held
     /\ entry.key = call[c].key
     /\ ~Unserializable(entry.props)
     /\ ~Unserializable(PropSet(call[c].params))
     /\ entry.props # PropSet(call[c].params)) =>
      call[c].finalKey # entry.finalKey

====
